---- MODULE Spec2Model ----
(***************************************************************************)
(* main_script_creator.py: scan a folder for MODEL.Test.xxx.xml scripts,   *)
(* count them per model, and write one MODEL.xml per model that holds the  *)
(* header template, one INCLUDE line per counted script and the footer     *)
(* template.                                                               *)
(*                                                                         *)
(* Text (file names, paths, file contents) is a sequence of one-character  *)
(* strings, so that searching, splitting, padding and concatenating are    *)
(* computed character by character as the Python code computes them.       *)
(* A file's content is the text that Python's text mode reads and writes;  *)
(* a path names a file by its exact characters.  The two template files    *)
(* lie outside the origin and the destination folder.                      *)
(***************************************************************************)
EXTENDS Integers, Sequences, FiniteSets, TLC

VARIABLES
    platform,      \* platform.system() of the host
    argv,          \* the command line: kind, verbose, destination_folder
    header_file,   \* content of the file at args.path_to_header
    footer_file,   \* content of the file at args.path_to_footer
    fs,            \* the folders' files: full path -> content
    pc,            \* position of main()
    header,        \* main's local: loaded header text
    footer,        \* main's local: loaded footer text
    filenames,     \* the listing scan_for_models is applied to (SpecScan, SpecConvention)
    models,        \* the dict {model_name: count}, in insertion order
    pending,       \* items of models.items() the for loop has not visited yet
    model_name,    \* loop variable / create_main_string's argument
    tests_count,   \* loop variable / create_main_string's argument
    main_string,   \* create_main_string's local, then the text it returned
    index,         \* create_main_string's loop variable i
    status,        \* exit status of the process, NoStatus while it runs
    stdout,        \* messages printed so far
    phases,        \* history: the steps of main this run has taken, in order
    ops,           \* history: file-system calls of this run, with their outcome
    fs0,           \* history: fs when this run started
    prev           \* history: the previous run of the session, as it ended

vars == << platform, argv, header_file, footer_file, fs, pc, header, footer,
           filenames, models, pending, model_name, tests_count, main_string, index,
           status, stdout, phases, ops, fs0, prev >>

-----------------------------------------------------------------------------
(* Bounds of the model *)

\* most entries a scanned folder listing holds (pure-function specification)
MaxEntries == 4
\* counts 1..MaxCount are rendered in full
MaxCount == 3
\* a count beyond the three-digit range, rendered in full as well
WideCount == 1000

-----------------------------------------------------------------------------
(* Python str operations *)

\* s[i:i+len(pat)] == pat
MatchesAt(s, pat, i) ==
    /\ i >= 1
    /\ i + Len(pat) - 1 <= Len(s)
    /\ SubSeq(s, i, i + Len(pat) - 1) = pat

\* pat in s
Contains(s, pat) == \E i \in 1..(Len(s) + 1) : MatchesAt(s, pat, i)

\* s.find(pat) + 1: the leftmost position where pat occurs
FindFirst(s, pat) ==
    CHOOSE i \in 1..(Len(s) + 1) :
        /\ MatchesAt(s, pat, i)
        /\ \A j \in 1..(i - 1) : ~MatchesAt(s, pat, j)

\* the rightmost position where pat occurs (what rsplit would cut at)
FindLast(s, pat) ==
    CHOOSE i \in 1..(Len(s) + 1) :
        /\ MatchesAt(s, pat, i)
        /\ \A j \in (i + 1)..(Len(s) + 1) : ~MatchesAt(s, pat, j)

SplitHead_last(s, pat) ==
    IF Contains(s, pat) THEN SubSeq(s, 1, FindLast(s, pat) - 1) ELSE s

\* s.split(pat)[0]: the text before the leftmost occurrence of pat
SplitHead(s, pat) ==
    IF Contains(s, pat) THEN SubSeq(s, 1, FindFirst(s, pat) - 1) ELSE s

\* s.endswith(suffix)
EndsWith(s, suffix) ==
    /\ Len(suffix) <= Len(s)
    /\ SubSeq(s, Len(s) - Len(suffix) + 1, Len(s)) = suffix

\* s.startswith(prefix)
StartsWith(s, prefix) == MatchesAt(s, prefix, 1)

DigitChars == <<"0", "1", "2", "3", "4", "5", "6", "7", "8", "9">>

RECURSIVE Decimal(_)
\* the decimal digits of n >= 0, most significant first
Decimal(n) ==
    IF n < 10 THEN << DigitChars[n + 1] >>
    ELSE Decimal(n \div 10) \o << DigitChars[(n % 10) + 1] >>

RECURSIVE ZeroPad(_, _)
\* left-pad with "0" up to width; longer text is left as it is
ZeroPad(s, width) ==
    IF Len(s) >= width THEN s ELSE ZeroPad(<<"0">> \o s, width)

\* a fixed three-character field: the last three digits only
Format03d_fixed(i) == ZeroPad(Decimal(i % 1000), 3)

\* format(i, '03d')
Format03d(i) == ZeroPad(Decimal(i), 3)

-----------------------------------------------------------------------------
(* The dict models, as the sequence of its (key, value) items in insertion  *)
(* order                                                                    *)

DictHas(d, k) == \E i \in 1..Len(d) : d[i][1] = k

DictGet(d, k) == d[CHOOSE i \in 1..Len(d) : d[i][1] = k][2]

DictSet(d, k, v) ==
    IF DictHas(d, k)
    THEN [i \in 1..Len(d) |-> IF d[i][1] = k THEN <<k, v>> ELSE d[i]]
    ELSE Append(d, <<k, v>>)

DictKeys(d) == {d[i][1] : i \in 1..Len(d)}

-----------------------------------------------------------------------------
(* scan_for_models *)

Delimiter == <<".", "T", "e", "s", "t", ".">>

\* the loop body with the else branch storing 1 again instead of adding 1
CountFile_reset(dict, filename) ==
    IF Contains(filename, Delimiter)
    THEN DictSet(dict, SplitHead(filename, Delimiter), 1)
    ELSE dict

\* one iteration of `for filename in filenames`
CountFile(dict, filename) ==
    IF Contains(filename, Delimiter)
    THEN LET name == SplitHead(filename, Delimiter)
         IN  IF ~DictHas(dict, name)
             THEN DictSet(dict, name, 1)
             ELSE DictSet(dict, name, DictGet(dict, name) + 1)
    ELSE dict

RECURSIVE CountFiles(_, _)
\* the for loop over the listing, starting from the dict built so far
CountFiles(dict, listing) ==
    IF listing = <<>> THEN dict
    ELSE CountFiles(CountFile(dict, Head(listing)), Tail(listing))

\* scan_for_models once os.listdir has returned listing
scan_for_models(listing) == CountFiles(<<>>, listing)

-----------------------------------------------------------------------------
(* create_main_string *)

IncludeLine(name, i) ==
    <<"<", "I", "N", "C", "L", "U", "D", "E", " ", "F", "i", "l", "e", "N", "a", "m", "e", "=", "\"">> \o name \o <<".", "T", "e", "s", "t", ".">> \o Format03d(i)
        \o <<".", "x", "m", "l", "\"", " ">> \o <<"N", "a", "m", "e", "S", "p", "a", "c", "e", "=", "\"", "\"", " ", "T", "A", "B", "=", "\"", "1", "0", "\"", " ", "L", "i", "n", "e", "C", "o", "m", "m", "e", "n", "t", "=", "\"", "0", "\"", "/", ">">> \o <<"\n">>

RECURSIVE IncludeLoop(_, _, _, _)
\* `for i in range(i, count + 1): text += line`
IncludeLoop(text, name, i, count) ==
    IF i > count THEN text
    ELSE IncludeLoop(text \o IncludeLine(name, i), name, i + 1, count)

create_main_string(name, count, head, foot) ==
    IncludeLoop(head, name, 1, count) \o foot

-----------------------------------------------------------------------------
(* create_main_file and the folders *)

Backslash == <<"\\">>

\* open(dest, 'a+'): the text is added after what the file already holds
WriteFile_append(files, dest, text) ==
    [p \in DOMAIN files \cup {dest} |->
        IF p = dest
        THEN (IF dest \in DOMAIN files THEN files[dest] ELSE <<>>) \o text
        ELSE files[p]]

\* open(dest, 'w+') creates or truncates the file, write() stores the text
WriteFile(files, dest, text) ==
    [p \in DOMAIN files \cup {dest} |-> IF p = dest THEN text ELSE files[p]]

\* the path without the ".xml" extension
DestPath_noext(name, folder) ==
    (IF EndsWith(folder, Backslash) = FALSE THEN folder \o Backslash ELSE folder)
        \o name

\* dest of create_main_file: folder, one backslash, model_name + ".xml"
DestPath(name, folder) ==
    LET file_name == name \o <<".", "x", "m", "l">>
        dir == IF EndsWith(folder, Backslash) = FALSE
               THEN folder \o Backslash ELSE folder
    IN  dir \o file_name

\* the entry names os.listdir(folder) returns: the files directly in folder
ListDir(files, folder) ==
    LET dir == folder \o Backslash
    IN  { SubSeq(p, Len(dir) + 1, Len(p)) :
            p \in { q \in DOMAIN files :
                      /\ StartsWith(q, dir)
                      /\ ~Contains(SubSeq(q, Len(dir) + 1, Len(q)), Backslash) } }

\* os.listdir returns the entries in arbitrary order: every ordering of them
Orderings(S) ==
    { s \in [1..Cardinality(S) -> S] : \A i, j \in 1..Cardinality(S) : s[i] = s[j] => i = j }

\* the elements of a sequence
Entries(listing) == { listing[k] : k \in 1..Len(listing) }

-----------------------------------------------------------------------------
(* Inputs *)

OriginFolder == <<"O">>
OtherFolder == <<"D">>

HeaderText == <<"<", "H", ">", "\n">>
FooterText == <<"<", "F", ">", "\n">>

\* entry names a scanned folder may hold
ScanPool ==
    { <<"A", ".", "T", "e", "s", "t", ".", "0", "0", "1", ".", "x", "m", "l">>, <<"A", ".", "T", "e", "s", "t", ".", "0", "0", "2", ".", "x", "m", "l">>, <<"B", ".", "T", "e", "s", "t", ".", "0", "0", "1", ".", "x", "m", "l">>,
      <<"A", ".", "T", "e", "s", "t", ".", "T", "e", "s", "t", ".", "x">>, <<".", "T", "e", "s", "t", ".", "1">>, <<"A", ".", "T", "e", "s", "t">>, <<"A", ".", "t", "e", "s", "t", ".", "1">>, <<"A", ".", "x", "m", "l">>,
      <<"A", ".", "B", ".", "T", "e", "s", "t", ".", "1">>, <<"A", ".", "T", "e", "s", "t", ".", "x", "m", "l">> }

\* listings of at most MaxEntries distinct entries, in every order
Listings ==
    UNION { { s \in [1..n -> ScanPool] : \A i, j \in 1..n : s[i] = s[j] => i = j } :
            n \in 0..MaxEntries }

RenderNames == { <<"A">>, <<>>, <<"A", ".", "B">> }
Templates == { <<>>, HeaderText, FooterText }

\* no exit status yet: the process is running
NoStatus == 0 - 1

\* prev before any run has ended
NoRun ==
    [ mode |-> "none", status |-> NoStatus, argv |-> <<>>, header_file |-> <<>>,
      footer_file |-> <<>>, fs0 |-> <<>>, fs |-> <<>>,
      models |-> <<>>, phases |-> <<>>, ops |-> <<>>, stdout |-> <<>> ]

\* values of the variables a specification does not use
Idle ==
    /\ platform = "Windows"
    /\ argv = [kind |-> "ok", verbose |-> FALSE, destination_folder |-> OriginFolder]
    /\ header_file = HeaderText
    /\ footer_file = FooterText
    /\ status = NoStatus
    /\ stdout = <<>>
    /\ phases = <<>>
    /\ ops = <<>>
    /\ prev = NoRun

-----------------------------------------------------------------------------
(* SpecRender: create_main_string on its own, one action per step of its    *)
(* loop, from every combination of small arguments and from a count beyond  *)
(* the three-digit range                                                    *)

RenderInputs ==
    (RenderNames \X (1..MaxCount) \X Templates \X Templates)
        \cup { << <<"A">>, WideCount, HeaderText, FooterText >> }

InitRender ==
    /\ Idle
    /\ pc = "render_begin"
    /\ \E input \in RenderInputs :
          /\ model_name = input[1]
          /\ tests_count = input[2]
          /\ header = input[3]
          /\ footer = input[4]
    /\ main_string = <<>>
    /\ index = 0
    /\ filenames = <<>>
    /\ models = <<>>
    /\ pending = <<>>
    /\ fs = << >>
    /\ fs0 = << >>

\* main_string = header
RenderBegin ==
    /\ pc = "render_begin"
    /\ main_string' = header
    /\ index' = 1
    /\ pc' = "render_loop"
    /\ UNCHANGED << platform, argv, header_file, footer_file, fs, header, footer,
                    filenames, models, pending, model_name, tests_count,
                    status, stdout, phases, ops, fs0, prev >>

\* one iteration of `for i in range(1, tests_count + 1)`
RenderLine ==
    /\ pc = "render_loop"
    /\ index <= tests_count
    /\ main_string' = main_string \o IncludeLine(model_name, index)
    /\ index' = index + 1
    /\ UNCHANGED << platform, argv, header_file, footer_file, fs, pc, header, footer,
                    filenames, models, pending, model_name, tests_count,
                    status, stdout, phases, ops, fs0, prev >>

\* the loop is over: main_string += footer; return main_string
RenderEnd ==
    /\ pc = "render_loop"
    /\ index > tests_count
    /\ main_string' = main_string \o footer
    /\ pc' = "rendered"
    /\ UNCHANGED << platform, argv, header_file, footer_file, fs, header, footer,
                    filenames, models, pending, model_name, tests_count, index,
                    status, stdout, phases, ops, fs0, prev >>

NextRender == RenderBegin \/ RenderLine \/ RenderEnd

SpecRender == InitRender /\ [][NextRender]_vars

-----------------------------------------------------------------------------
(* SpecScan: scan_for_models on a listing, then the loop of main over the   *)
(* scanned dict writing into the scanned folder, with no I/O failure        *)

RECURSIVE WriteAll(_, _, _, _, _)
\* `for model_name, test_count in models.items()` with every write succeeding
WriteAll(files, items, folder, head, foot) ==
    IF items = <<>> THEN files
    ELSE WriteAll(WriteFile(files, DestPath(Head(items)[1], folder),
                            create_main_string(Head(items)[1], Head(items)[2], head, foot)),
                  Tail(items), folder, head, foot)

FolderOf(listing, folder) ==
    [p \in { folder \o Backslash \o listing[i] : i \in 1..Len(listing) } |-> <<"<", "T", "/", ">">>]

ScanInputs(listings) ==
    /\ Idle
    /\ pc = "scan_input"
    /\ filenames \in listings
    /\ fs = FolderOf(filenames, OriginFolder)
    /\ fs0 = fs
    /\ header = HeaderText
    /\ footer = FooterText
    /\ models = <<>>
    /\ pending = <<>>
    /\ model_name = <<>>
    /\ tests_count = 0
    /\ main_string = <<>>
    /\ index = 0

InitScan == ScanInputs(Listings)

PureScan ==
    /\ pc = "scan_input"
    /\ models' = scan_for_models(filenames)
    /\ pc' = "scanned"
    /\ UNCHANGED << platform, argv, header_file, footer_file, fs, header, footer,
                    filenames, pending, model_name, tests_count, main_string, index,
                    status, stdout, phases, ops, fs0, prev >>

PureGenerate ==
    /\ pc = "scanned"
    /\ fs' = WriteAll(fs, models, OriginFolder, header, footer)
    /\ pc' = "generated"
    /\ UNCHANGED << platform, argv, header_file, footer_file, header, footer,
                    filenames, models, pending, model_name, tests_count, main_string, index,
                    status, stdout, phases, ops, fs0, prev >>

NextScan == PureScan \/ PureGenerate

SpecScan == InitScan /\ [][NextScan]_vars

\* SpecConvention: the same, over folders that hold nothing but scripts named
\* MODEL_NAME.Test.xxx.xml with xxx a 3-digit zero-padded integer
ConventionPool ==
    { <<"A", ".", "T", "e", "s", "t", ".", "0", "0", "1", ".", "x", "m", "l">>, <<"A", ".", "T", "e", "s", "t", ".", "0", "0", "2", ".", "x", "m", "l">>, <<"A", ".", "T", "e", "s", "t", ".", "0", "0", "3", ".", "x", "m", "l">>, <<"B", ".", "T", "e", "s", "t", ".", "0", "0", "1", ".", "x", "m", "l">> }

ConventionListings ==
    UNION { { s \in [1..n -> ConventionPool] : \A j, k \in 1..n : s[j] = s[k] => j = k } :
            n \in 0..MaxEntries }

InitConvention == ScanInputs(ConventionListings)

SpecConvention == InitConvention /\ [][NextScan]_vars

-----------------------------------------------------------------------------
(* main(): one run of the program, and sessions of two runs                 *)

\* files the origin folder may hold when a session starts
OriginPool == { <<"A", ".", "T", "e", "s", "t", ".", "0", "0", "1", ".", "x", "m", "l">>, <<"A", ".", "T", "e", "s", "t", ".", "0", "0", "2", ".", "x", "m", "l">>, <<"B", ".", "T", "e", "s", "t", ".", "0", "0", "1", ".", "x", "m", "l">>, <<"A", ".", "x", "m", "l">> }

\* an output of an earlier session that may already lie in the other folder
StaleFiles == { << >>, [p \in { <<"D", "\\", "A", ".", "x", "m", "l">> } |-> <<"o", "l", "d">>] }

AltHeaderText == <<"<", "H", "2", ">", "\n">>
HeaderTexts == { HeaderText, AltHeaderText }

\* the command lines: a usage error and -h end the run inside parse_args
Argvs ==
    [ kind : {"ok"}, verbose : BOOLEAN,
      destination_folder : { OriginFolder, OtherFolder, OtherFolder \o Backslash } ]
    \cup [ kind : {"usage_error", "help"}, verbose : BOOLEAN,
           destination_folder : { <<>> } ]

HeaderPath == <<"h", "e", "a", "d", "e", "r", ".", "t", "x", "t">>
FooterPath == <<"f", "o", "o", "t", "e", "r", ".", "t", "x", "t">>

Last(s) == s[Len(s)]

Merge(f, g) == [p \in DOMAIN f \cup DOMAIN g |-> IF p \in DOMAIN f THEN f[p] ELSE g[p]]

Say(msg) == [msg |-> msg, value |-> <<>>]

\* print(...) under `if args.verbose:`
Verbose(out, lines) == IF argv.verbose THEN out \o lines ELSE out

\* The second run of a replay session meets the file system of the first:
\* the same outcome for its k-th call, and a listing in an order that gives
\* the dict the same order.
Replaying == prev.mode = "replay"

Outcomes(all) ==
    IF Replaying /\ Len(ops) < Len(prev.ops)
    THEN all \cap { prev.ops[Len(ops) + 1].result }
    ELSE all

ListingsOf(entries) ==
    LET all == Orderings(entries)
        same == { s \in all : scan_for_models(s) = prev.models }
    IN  IF Replaying /\ same # {} THEN same ELSE all

Call(op, path, text, result) == [op |-> op, path |-> path, text |-> text, result |-> result]

Init ==
    /\ platform \in {"Windows", "Linux"}
    /\ argv \in Argvs
    /\ header_file = HeaderText
    /\ footer_file = FooterText
    /\ \E present \in SUBSET OriginPool, stale \in StaleFiles :
          fs = Merge([p \in { OriginFolder \o Backslash \o n : n \in present } |-> <<"<", "T", "/", ">">>],
                     stale)
    /\ fs0 = fs
    /\ pc = "start"
    /\ header = <<>>
    /\ footer = <<>>
    /\ filenames = <<>>
    /\ models = <<>>
    /\ pending = <<>>
    /\ model_name = <<>>
    /\ tests_count = 0
    /\ main_string = <<>>
    /\ index = 0
    /\ status = NoStatus
    /\ stdout = <<>>
    /\ phases = <<>>
    /\ ops = <<>>
    /\ prev = NoRun

\* if platform.system() != 'Windows': print(...); sys.exit(1)
CheckPlatform ==
    /\ pc = "start"
    /\ phases' = Append(phases, "start")
    /\ IF platform # "Windows"
       THEN /\ stdout' = Append(stdout, Say("This script only runs properly on Windows."))
            /\ status' = 1
            /\ pc' = "exit"
       ELSE /\ pc' = "parse_args"
            /\ UNCHANGED << stdout, status >>
    /\ UNCHANGED << platform, argv, header_file, footer_file, fs, header, footer,
                    filenames, models, pending, model_name, tests_count, main_string,
                    index, ops, fs0, prev >>

\* args = parser.parse_args(): argparse ends the process with status 2 on a
\* command line it rejects and with status 0 after printing the help for -h
ParseArgs ==
    /\ pc = "parse_args"
    /\ phases' = Append(phases, "parse_args")
    /\ CASE argv.kind = "usage_error" ->
              /\ status' = 2
              /\ pc' = "exit"
              /\ UNCHANGED stdout
         [] argv.kind = "help" ->
              /\ stdout' = Append(stdout, Say("usage"))
              /\ status' = 0
              /\ pc' = "exit"
         [] argv.kind = "ok" ->
              /\ stdout' = Verbose(stdout, << Say("Verbosity turned on!") >>)
              /\ pc' = "load_header"
              /\ UNCHANGED status
    /\ UNCHANGED << platform, argv, header_file, footer_file, fs, header, footer,
                    filenames, models, pending, model_name, tests_count, main_string,
                    index, ops, fs0, prev >>

\* load_header's except branch prints and re-raises; main's `except IOError: sys.exit(1)`
HeaderFailed ==
    /\ stdout' = Append(stdout, Say("Couldn't read header file"))
    /\ status' = 1
    /\ pc' = "exit"
    /\ UNCHANGED header

\* header = load_header(args.path_to_header)
LoadHeader ==
    /\ pc = "load_header"
    /\ phases' = Append(phases, "load_header")
    /\ \E result \in Outcomes({"ok", "failed"}) :
          /\ ops' = Append(ops, Call("read", HeaderPath, <<>>, result))
          /\ IF result = "ok"
             THEN /\ header' = header_file
                  /\ stdout' = Verbose(stdout, << Say("Header successfully loaded!") >>)
                  /\ pc' = "load_footer"
                  /\ UNCHANGED status
             ELSE HeaderFailed
    /\ UNCHANGED << platform, argv, header_file, footer_file, fs, footer,
                    filenames, models, pending, model_name, tests_count, main_string,
                    index, fs0, prev >>

\* the failure swallowed (`except IOError: pass`): main goes on with an empty footer
FooterFailed_continue ==
    /\ stdout' = stdout \o << Say("Couldn't read footer file"), Say("error") >>
    /\ footer' = <<>>
    /\ pc' = "scan"
    /\ UNCHANGED status

\* load_footer's except branch prints twice and re-raises; main's `except IOError: sys.exit(1)`
FooterFailed ==
    /\ stdout' = stdout \o << Say("Couldn't read footer file"), Say("error") >>
    /\ status' = 1
    /\ pc' = "exit"
    /\ UNCHANGED footer

\* footer = load_footer(args.path_to_footer)
LoadFooter ==
    /\ pc = "load_footer"
    /\ phases' = Append(phases, "load_footer")
    /\ \E result \in Outcomes({"ok", "failed"}) :
          /\ ops' = Append(ops, Call("read", FooterPath, <<>>, result))
          /\ IF result = "ok"
             THEN /\ footer' = footer_file
                  /\ stdout' = Verbose(stdout, << Say("Footer successfully loaded!") >>)
                  /\ pc' = "scan"
                  /\ UNCHANGED status
             ELSE FooterFailed
    /\ UNCHANGED << platform, argv, header_file, footer_file, fs, header,
                    filenames, models, pending, model_name, tests_count, main_string,
                    index, fs0, prev >>

\* the failure swallowed: main goes on with an empty dict
ScanFailed_continue ==
    /\ stdout' = stdout \o << Say("Error scaning origin directory!"), Say("error") >>
    /\ models' = <<>>
    /\ pending' = <<>>
    /\ pc' = "render_write"
    /\ UNCHANGED status

\* scan_for_models' except branch prints twice and re-raises; main's `except OSError: sys.exit(1)`
ScanFailed ==
    /\ stdout' = stdout \o << Say("Error scaning origin directory!"), Say("error") >>
    /\ status' = 1
    /\ pc' = "exit"
    /\ UNCHANGED << models, pending >>

\* the loop entered only under -v
LoopItems_verbose(dict) == IF argv.verbose THEN dict ELSE <<>>

\* models.items(): the items the for loop of main visits, in the dict's order
LoopItems(dict) == dict

\* models = scan_for_models(args.origin_folder)
ScanModels ==
    /\ pc = "scan"
    /\ phases' = Append(phases, "scan")
    /\ \E result \in Outcomes({"ok", "failed"}) :
          /\ ops' = Append(ops, Call("listdir", OriginFolder, <<>>, result))
          /\ IF result = "ok"
             THEN \E listing \in ListingsOf(ListDir(fs, OriginFolder)) :
                     /\ models' = scan_for_models(listing)
                     /\ pending' = LoopItems(scan_for_models(listing))
                     /\ stdout' = Verbose(stdout,
                           << Say("The folliwng models detected are shown as:"),
                              [msg |-> "pprint", value |-> scan_for_models(listing)],
                              Say("") >>)
                     /\ pc' = "render_write"
                     /\ UNCHANGED status
             ELSE ScanFailed
    /\ UNCHANGED << platform, argv, header_file, footer_file, fs, header, footer,
                    filenames, model_name, tests_count, main_string, index, fs0, prev >>

\* what a call of create_main_file may do to the files: store the text, fail
\* in open() and touch nothing, or fail in write() after open() has created
\* or emptied the file and part of the text got through
WriteResults(text) ==
    { "ok", "open_failed", "write_failed_empty" }
        \cup (IF Len(text) > 1 THEN { "write_failed_partial" } ELSE {})

create_main_file(files, name, text, folder, result) ==
    CASE result = "ok" -> WriteFile(files, DestPath(name, folder), text)
      [] result = "open_failed" -> files
      [] result = "write_failed_empty" -> WriteFile(files, DestPath(name, folder), <<>>)
      [] result = "write_failed_partial" ->
            WriteFile(files, DestPath(name, folder), SubSeq(text, 1, Len(text) \div 2))

\* continue-on-error: the failure is reported and the loop goes on
WriteFailed_continue ==
    /\ stdout' = Append(stdout, Say("Couldn't open or write to file"))
    /\ pending' = Tail(pending)
    /\ UNCHANGED << pc, status >>

\* create_main_file's except branch prints and re-raises; main's `except IOError: sys.exit(1)`
WriteFailed ==
    /\ stdout' = Append(stdout, Say("Couldn't open or write to file"))
    /\ status' = 1
    /\ pc' = "exit"
    /\ UNCHANGED pending

\* one iteration of `for model_name, test_count in models.items()`:
\* create_main_string, then create_main_file
RenderWrite ==
    /\ pc = "render_write"
    /\ pending # <<>>
    /\ phases' = Append(phases, "render_write")
    /\ LET name == Head(pending)[1]
           count == Head(pending)[2]
           text == create_main_string(name, count, header, footer)
       IN  /\ model_name' = name
           /\ tests_count' = count
           /\ main_string' = text
           /\ \E result \in Outcomes(WriteResults(text)) :
                 /\ fs' = create_main_file(fs, name, text, argv.destination_folder, result)
                 /\ ops' = Append(ops, Call("write", DestPath(name, argv.destination_folder),
                                            text, result))
                 /\ IF result = "ok"
                    THEN /\ pending' = Tail(pending)
                         /\ UNCHANGED << pc, status, stdout >>
                    ELSE WriteFailed
    /\ UNCHANGED << platform, argv, header_file, footer_file, header, footer,
                    filenames, models, index, fs0, prev >>

\* the loop is over: sys.exit(0)
Finish ==
    /\ pc = "render_write"
    /\ pending = <<>>
    /\ phases' = Append(phases, "done")
    /\ stdout' = Verbose(stdout, << Say("Created model_name.xml files successfully!") >>)
    /\ status' = 0
    /\ pc' = "exit"
    /\ UNCHANGED << platform, argv, header_file, footer_file, fs, header, footer,
                    filenames, models, pending, model_name, tests_count, main_string,
                    index, ops, fs0, prev >>

Step ==
    \/ CheckPlatform
    \/ ParseArgs
    \/ LoadHeader
    \/ LoadFooter
    \/ ScanModels
    \/ RenderWrite
    \/ Finish

\* the run as it ended, for the run that follows it
Ended(mode) ==
    [ mode |-> mode, status |-> status, argv |-> argv, header_file |-> header_file,
      footer_file |-> footer_file, fs0 |-> fs0, fs |-> fs,
      models |-> models, phases |-> phases, ops |-> ops, stdout |-> stdout ]

\* a new process: every local of main starts afresh
FreshProcess ==
    /\ pc' = "start"
    /\ header' = <<>>
    /\ footer' = <<>>
    /\ filenames' = <<>>
    /\ models' = <<>>
    /\ pending' = <<>>
    /\ model_name' = <<>>
    /\ tests_count' = 0
    /\ main_string' = <<>>
    /\ index' = 0
    /\ status' = NoStatus
    /\ stdout' = <<>>
    /\ phases' = <<>>
    /\ ops' = <<>>

\* the user runs the same command line again on the files the first run
\* left, possibly after editing the header template
Rerun ==
    /\ pc = "exit"
    /\ prev.mode = "none"
    /\ prev' = Ended("rerun")
    /\ header_file' \in HeaderTexts
    /\ fs0' = fs
    /\ FreshProcess
    /\ UNCHANGED << platform, argv, footer_file, fs >>

\* the same command line with the -v flag switched, on the files as they
\* were before the first run
Replay ==
    /\ pc = "exit"
    /\ prev.mode = "none"
    /\ prev' = Ended("replay")
    /\ argv' = [argv EXCEPT !.verbose = ~argv.verbose]
    /\ fs' = fs0
    /\ FreshProcess
    /\ UNCHANGED << platform, header_file, footer_file, fs0 >>

\* one run; main is sequential code, so a step that can be taken is taken
Spec == Init /\ [][Step]_vars /\ WF_vars(Step)

NextRerun == Step \/ Rerun

SpecRerun == Init /\ [][NextRerun]_vars

NextPair == Step \/ Replay

SpecPair == Init /\ [][NextPair]_vars

-----------------------------------------------------------------------------
(* Vocabulary of the properties, stated without the operators that model    *)
(* the code                                                                 *)

Prefixes(s) == { SubSeq(s, 1, k) : k \in 0..Len(s) }

\* name = g + ".Test." + rest, and ".Test." starts at no earlier position
IsGroupOf(g, name) ==
    /\ Len(g) + Len(Delimiter) <= Len(name)
    /\ SubSeq(name, 1, Len(g)) = g
    /\ SubSeq(name, Len(g) + 1, Len(g) + Len(Delimiter)) = Delimiter
    /\ \A j \in 1..Len(g) : SubSeq(name, j, j + Len(Delimiter) - 1) # Delimiter

HasDelimiter(name) ==
    \E j \in 1..Len(name) :
        /\ j + Len(Delimiter) - 1 <= Len(name)
        /\ SubSeq(name, j, j + Len(Delimiter) - 1) = Delimiter

RECURSIVE SumCounts(_)
SumCounts(d) == IF d = <<>> THEN 0 ELSE Head(d)[2] + SumCounts(Tail(d))

-----------------------------------------------------------------------------
(* C1: scan_for_models returns a table with a key g exactly when some entry *)
(* contains ".Test." and g is the text before its first ".Test."; the value *)
(* of g is the number of such entries, so every value is at least 1, the    *)
(* values add up to the number of entries that contain ".Test.", and an     *)
(* entry without ".Test." is counted nowhere.                               *)
C1_ScanTally ==
    pc = "scanned" =>
        LET candidates ==
                DictKeys(models) \cup UNION { Prefixes(n) : n \in Entries(filenames) }
            members(g) == { k \in 1..Len(filenames) : IsGroupOf(g, filenames[k]) }
        IN  /\ \A g \in candidates : DictHas(models, g) <=> members(g) # {}
            /\ \A k \in 1..Len(models) :
                   /\ models[k][2] = Cardinality(members(models[k][1]))
                   /\ models[k][2] >= 1
            /\ Cardinality(DictKeys(models)) = Len(models)
            /\ SumCounts(models)
                 = Cardinality({ k \in 1..Len(filenames) : HasDelimiter(filenames[k]) })

\* the listing of the specification's example plus an entry without ".Test."
C1_Witness ==
    /\ pc = "scanned"
    /\ Len(filenames) = 4
    /\ \E k \in 1..4 : ~HasDelimiter(filenames[k])
    /\ DictKeys(models) = { <<"A">>, <<"B">> }
    /\ DictGet(models, <<"A">>) = 2
    /\ DictGet(models, <<"B">>) = 1

-----------------------------------------------------------------------------
(* The include line and its index field, for C2 and the properties of a run *)

LineOpen == <<"<", "I", "N", "C", "L", "U", "D", "E", " ", "F", "i", "l", "e", "N", "a", "m", "e", "=", "\"">>
LineClose == <<".", "x", "m", "l", "\"", " ", "N", "a", "m", "e", "S", "p", "a", "c", "e", "=", "\"", "\"", " ", "T", "A", "B", "=", "\"", "1", "0", "\"", " ", "L", "i", "n", "e", "C", "o", "m", "m", "e", "n", "t", "=", "\"", "0", "\"", "/", ">", "\n">>

Pow10(w) == IF w = 3 THEN 1000 ELSE IF w = 4 THEN 10000 ELSE IF w = 5 THEN 100000 ELSE 1000000

\* characters the index k takes: 3, and one more for each power of ten from 1000 that k reaches
FieldWidth(k) == 3 + Cardinality({ w \in 3..5 : k >= Pow10(w) })

\* characters the indexes 1..k take together
FieldWidthSum(k) ==
    3 * k + Cardinality({ j \in 1..k : j >= 1000 }) + Cardinality({ j \in 1..k : j >= 10000 })

RECURSIVE ParseDecimal(_)
ParseDecimal(s) ==
    IF s = <<>> THEN 0
    ELSE 10 * ParseDecimal(SubSeq(s, 1, Len(s) - 1))
           + (CHOOSE d \in 0..9 : DigitChars[d + 1] = s[Len(s)])

(* C2: for count >= 1, create_main_string returns exactly the header, then  *)
(* count include lines for i = 1..count in ascending order, each            *)
(* <INCLUDE FileName="{name}.Test.{i}.xml" NameSpace="" TAB="10"            *)
(* LineComment="0"/> and a newline, then the footer, and nothing else; i is *)
(* written in decimal, zero-padded to at least 3 characters and never       *)
(* truncated.                                                               *)
C2_RenderExact ==
    pc = "rendered" =>
        LET fixed == Len(LineOpen) + Len(model_name) + Len(Delimiter) + Len(LineClose)
            \* position of the first character of line k
            Start(k) == Len(header) + (k - 1) * fixed + FieldWidthSum(k - 1) + 1
            fieldAt == Len(LineOpen) + Len(model_name) + Len(Delimiter)
        IN  /\ Len(main_string) = Start(tests_count + 1) - 1 + Len(footer)
            /\ SubSeq(main_string, 1, Len(header)) = header
            /\ SubSeq(main_string, Start(tests_count + 1), Len(main_string)) = footer
            /\ \A k \in 1..tests_count :
                 LET line == SubSeq(main_string, Start(k), Start(k + 1) - 1)
                     field == SubSeq(line, fieldAt + 1, fieldAt + FieldWidth(k))
                 IN  /\ SubSeq(line, 1, Len(LineOpen)) = LineOpen
                     /\ SubSeq(line, Len(LineOpen) + 1, Len(LineOpen) + Len(model_name))
                          = model_name
                     /\ SubSeq(line, Len(LineOpen) + Len(model_name) + 1, fieldAt) = Delimiter
                     /\ \A c \in 1..Len(field) : \E d \in 1..10 : field[c] = DigitChars[d]
                     /\ ParseDecimal(field) = k
                     /\ Len(field) >= 3
                     /\ (Len(field) > 3 => field[1] # "0")
                     /\ SubSeq(line, fieldAt + FieldWidth(k) + 1, Len(line)) = LineClose

\* a render whose last index needs four digits
C2_Witness ==
    /\ pc = "rendered"
    /\ tests_count >= 1000
    /\ Contains(main_string, <<".", "T", "e", "s", "t", ".", "1", "0", "0", "0", ".", "x", "m", "l">>)
    /\ Contains(main_string, <<".", "T", "e", "s", "t", ".", "0", "0", "1", ".", "x", "m", "l">>)

-----------------------------------------------------------------------------
(* C4: every generated file references every test file of its group: for    *)
(* each entry counted toward g, the file g.xml holds an include line whose  *)
(* FileName is that entry's name, and no include line names a file that is  *)
(* absent from the scanned folder.                                          *)
C4_ReferencesEveryTestFile ==
    pc = "generated" =>
        /\ \A k \in 1..Len(filenames) :
             HasDelimiter(filenames[k]) =>
                LET g == CHOOSE p \in Prefixes(filenames[k]) : IsGroupOf(p, filenames[k])
                IN  Contains(fs[DestPath(g, OriginFolder)],
                             <<"F", "i", "l", "e", "N", "a", "m", "e", "=", "\"">> \o filenames[k] \o <<"\"">>)
        /\ \A m \in 1..Len(models) :
             LET text == fs[DestPath(models[m][1], OriginFolder)]
             IN  \A at \in 1..Len(text) :
                    MatchesAt(text, <<"F", "i", "l", "e", "N", "a", "m", "e", "=", "\"">>, at) =>
                       \E n \in Entries(filenames) :
                          MatchesAt(text, n \o <<"\"">>, at + Len(<<"F", "i", "l", "e", "N", "a", "m", "e", "=", "\"">>))

-----------------------------------------------------------------------------
(* C10: a generated file is never taken for a test file: for every group g  *)
(* of the scanned table, g holds no ".Test.", does not end in ".Test", and  *)
(* g + ".xml" holds no ".Test."; so scanning the folder again after the     *)
(* files were written into it gives the same table, and distinct groups are *)
(* written to distinct files.                                               *)
C10_GeneratedNotRescanned ==
    pc = "generated" =>
        LET outputs == [k \in 1..Len(models) |-> models[k][1] \o <<".", "x", "m", "l">>]
            fresh(n) == n \notin Entries(filenames)
            relisting == filenames \o SelectSeq(outputs, fresh)
            again == scan_for_models(relisting)
        IN  /\ \A k \in 1..Len(models) :
                 /\ ~HasDelimiter(models[k][1])
                 /\ ~EndsWith(models[k][1], <<".", "T", "e", "s", "t">>)
                 /\ ~HasDelimiter(outputs[k])
            /\ Entries(relisting) = ListDir(fs, OriginFolder)
            /\ Entries(again) = Entries(models)
            /\ Cardinality({ DestPath(models[k][1], OriginFolder) : k \in 1..Len(models) })
                 = Len(models)

\* an entry with two ".Test." and one that looks like the output of a group "A.Test"
C10_Witness ==
    /\ pc = "generated"
    /\ <<"A", ".", "T", "e", "s", "t", ".", "T", "e", "s", "t", ".", "x">> \in Entries(filenames)
    /\ <<"A", ".", "T", "e", "s", "t", ".", "x", "m", "l">> \in Entries(filenames)
    /\ <<"O", "\\", "A", ".", "x", "m", "l">> \in DOMAIN fs
    /\ <<"O", "\\", "A", ".", "T", "e", "s", "t", ".", "x", "m", "l">> \in DOMAIN fs0

-----------------------------------------------------------------------------
(* Vocabulary of the properties about a run                                 *)

\* names of the files directly in the origin folder
OriginEntries(files) ==
    { SubSeq(p, 3, Len(p)) :
        p \in { q \in DOMAIN files : Len(q) > 2 /\ q[1] = "O" /\ q[2] = "\\" } }

\* the groups of a folder and the number of entries of each
GroupsIn(files) ==
    { g \in UNION { Prefixes(n) : n \in OriginEntries(files) } :
        \E n \in OriginEntries(files) : IsGroupOf(g, n) }

CountIn(files, g) == Cardinality({ n \in OriginEntries(files) : IsGroupOf(g, n) })

\* the index k < 1000 as three digits
ThreeDigits(k) ==
    << DigitChars[((k \div 100) % 10) + 1], DigitChars[((k \div 10) % 10) + 1],
       DigitChars[(k % 10) + 1] >>

RECURSIVE ExpectedLines(_, _)
ExpectedLines(g, n) ==
    IF n = 0 THEN <<>>
    ELSE ExpectedLines(g, n - 1)
           \o LineOpen \o g \o Delimiter \o ThreeDigits(n) \o LineClose

ExpectedFile(g, n) == header_file \o ExpectedLines(g, n) \o footer_file

\* the destination folder of the command line without its trailing backslash
DestFolder ==
    IF Last(argv.destination_folder) = "\\"
    THEN SubSeq(argv.destination_folder, 1, Len(argv.destination_folder) - 1)
    ELSE argv.destination_folder

ExpectedPath(g) == DestFolder \o <<"\\">> \o g \o <<".", "x", "m", "l">>

Succeeded(op, path) ==
    \E k \in 1..Len(ops) :
        ops[k].op = op /\ ops[k].path = path /\ ops[k].result = "ok"

C3_Outcome ==
    /\ Succeeded("read", HeaderPath)
    /\ Succeeded("read", FooterPath)
    /\ Succeeded("listdir", <<"O">>)
    /\ \A k \in 1..Len(ops) : ops[k].result = "ok"
    /\ \A g \in GroupsIn(fs0) :
          /\ Succeeded("write", ExpectedPath(g))
          /\ ExpectedPath(g) \in DOMAIN fs
          /\ fs[ExpectedPath(g)] = ExpectedFile(g, CountIn(fs0, g))
    /\ \A p \in DOMAIN fs :
          p \notin { ExpectedPath(g) : g \in GroupsIn(fs0) }
             => p \in DOMAIN fs0 /\ fs[p] = fs0[p]

(* C3 as amended: whenever a run that was not asked for the help text (-h)  *)
(* finishes with exit status 0, the header load, the footer load, the scan  *)
(* and every group's write succeeded, for every group g of the origin       *)
(* folder the destination holds g.xml with exactly header + count(g)        *)
(* include lines + footer, and no other file was created or changed.        *)
C3_SuccessfulRun ==
    (pc = "exit" /\ status = 0 /\ argv.kind # "help") => C3_Outcome

\* a successful run over two groups, one of them with two test files
C3_Witness ==
    /\ pc = "exit"
    /\ status = 0
    /\ argv.kind = "ok"
    /\ Cardinality(GroupsIn(fs0)) = 2
    /\ \E g \in GroupsIn(fs0) : CountIn(fs0, g) = 2
    /\ <<"D", "\\", "A", ".", "x", "m", "l">> \in DOMAIN fs0

(* C3 as claimed: whenever a run finishes with exit status 0, the header    *)
(* load, the footer load, the scan and every group's write succeeded and    *)
(* every group's file is in the destination with exactly its content.       *)
C3_Original ==
    (pc = "exit" /\ status = 0) => C3_Outcome

-----------------------------------------------------------------------------
(* C5: if the platform check, the header load, the footer load or the scan  *)
(* fails, the run ends at once with exit status 1, no later phase is        *)
(* attempted and no file is created or modified.                            *)
C5_EarlyFailureAborts ==
    /\ (platform # "Windows" /\ phases # <<>>) =>
          /\ phases = << "start" >>
          /\ ops = <<>>
          /\ pc = "exit"
          /\ status = 1
          /\ fs = fs0
    /\ \A k \in 1..Len(ops) :
          (ops[k].op \in {"read", "listdir"} /\ ops[k].result # "ok") =>
             /\ k = Len(ops)
             /\ Len(phases) = k + 2
             /\ pc = "exit"
             /\ status = 1
             /\ fs = fs0

\* the listing of the origin folder failed after both templates were read
C5_Witness ==
    /\ pc = "exit"
    /\ Len(ops) = 3
    /\ ops[3].op = "listdir"
    /\ ops[3].result = "failed"
    /\ status = 1

-----------------------------------------------------------------------------
(* C6: if the write of a group's file fails, the run ends at once with exit *)
(* status 1: no later group is rendered or written, and the files written   *)
(* for earlier groups keep their full content.                              *)
C6_WriteFailureAborts ==
    \A k \in 1..Len(ops) :
        (ops[k].op = "write" /\ ops[k].result # "ok") =>
           /\ k = Len(ops)
           /\ Last(phases) = "render_write"
           /\ Len(phases) = k + 2
           /\ pc = "exit"
           /\ status = 1
           /\ \A j \in 1..(k - 1) :
                 ops[j].op = "write" =>
                    /\ ops[j].result = "ok"
                    /\ ops[j].path \in DOMAIN fs
                    /\ fs[ops[j].path] = ops[j].text
                    /\ \E g \in GroupsIn(fs0) :
                          /\ ops[j].path = ExpectedPath(g)
                          /\ ops[j].text = ExpectedFile(g, CountIn(fs0, g))

\* the second group's write failed after the first group's file was written
C6_Witness ==
    /\ pc = "exit"
    /\ Len(ops) = 5
    /\ ops[4].op = "write"
    /\ ops[4].result = "ok"
    /\ ops[5].result = "write_failed_partial"
    /\ Len(pending) = 1

-----------------------------------------------------------------------------
(* C7: main is a linear state machine START -> LOAD_HEADER -> LOAD_FOOTER   *)
(* -> SCAN -> (RENDER+WRITE)* -> DONE: a phase starts only after the one    *)
(* before it succeeded, no phase is entered again, the templates are read   *)
(* once and the folder is listed once, before the first write, each group   *)
(* is written at most once, and every run terminates.                       *)

Rank(phase) ==
    CASE phase = "start" -> 1
      [] phase = "parse_args" -> 2
      [] phase = "load_header" -> 3
      [] phase = "load_footer" -> 4
      [] phase = "scan" -> 5
      [] phase = "render_write" -> 6
      [] phase = "done" -> 7

C7_Order ==
    /\ phases # <<>> => phases[1] = "start"
    /\ \A k \in 1..(Len(phases) - 1) :
          \/ Rank(phases[k + 1]) = Rank(phases[k]) + 1
          \/ phases[k] = "render_write" /\ phases[k + 1] = "render_write"
          \/ phases[k] = "scan" /\ phases[k + 1] = "done"
    /\ Len(phases) >= 2 => platform = "Windows"
    /\ Len(phases) >= 3 => argv.kind = "ok"
    /\ \A k \in 3..Len(phases) :
          /\ phases[k] # "done" => Len(ops) >= k - 2
          /\ k < Len(phases) => ops[k - 2].result = "ok"

\* no file-system call is made twice, and every write comes after the reads
\* and the listing
C7_Once ==
    /\ \A j, k \in 1..Len(ops) :
          (ops[j].op = ops[k].op /\ ops[j].path = ops[k].path) => j = k
    /\ \A j, k \in 1..Len(ops) :
          (ops[j].op # "write" /\ ops[k].op = "write") => j < k

\* as claimed: DONE with exit status 0, or aborted with exit status 1
C7_EndsAsClaimed ==
    IF pc = "exit"
    THEN \/ status = 0 /\ Last(phases) = "done"
         \/ status = 1 /\ Last(phases) # "done"
    ELSE status = NoStatus

\* as amended: or ended by parse_args before LOAD_HEADER, with argparse's status
C7_Ends ==
    IF pc = "exit"
    THEN \/ status = 0 /\ Last(phases) = "done"
         \/ status = 1 /\ Last(phases) # "done"
         \/ status = 2 /\ Last(phases) = "parse_args" /\ argv.kind = "usage_error"
         \/ status = 0 /\ Last(phases) = "parse_args" /\ argv.kind = "help"
    ELSE status = NoStatus

(* C7 as amended: ... and every run terminates, in DONE with exit status 0, *)
(* aborted with exit status 1, or ended by the argument parser before       *)
(* LOAD_HEADER with exit status 2 (usage error) or 0 (-h).                  *)
C7_LinearRun ==
    /\ [](C7_Order /\ C7_Once /\ C7_Ends)
    /\ <>(pc = "exit")

\* a run that went through every phase and wrote two groups
C7_Witness ==
    /\ pc = "exit"
    /\ phases = << "start", "parse_args", "load_header", "load_footer", "scan",
                   "render_write", "render_write", "done" >>
    /\ status = 0

(* C7 as claimed: ... and every run terminates, either in DONE with exit    *)
(* status 0 or aborted with exit status 1.                                  *)
C7_Original ==
    /\ [](C7_Order /\ C7_Once /\ C7_EndsAsClaimed)
    /\ <>(pc = "exit")

-----------------------------------------------------------------------------
(* C8: create_main_file overwrites: after a write of (g, text2) the file    *)
(* g.xml holds exactly text2 whatever it held before; so a second           *)
(* successful run with the same templates, origin and destination leaves    *)
(* every file as the first successful run left it.                          *)
C8_Overwrite ==
    /\ \A k \in 1..Len(ops) :
          ( /\ ops[k].op = "write"
            /\ ops[k].result = "ok"
            /\ \A j \in (k + 1)..Len(ops) : ops[j].path # ops[k].path )
          => /\ ops[k].path \in DOMAIN fs
             /\ fs[ops[k].path] = ops[k].text
    /\ ( /\ pc = "exit"
         /\ status = 0
         /\ prev.mode = "rerun"
         /\ prev.status = 0
         /\ header_file = prev.header_file
         /\ footer_file = prev.footer_file )
       => fs = prev.fs

\* the second run wrote, over a file the first run had written, another text
C8_Witness ==
    /\ pc = "exit"
    /\ status = 0
    /\ prev.mode = "rerun"
    /\ prev.status = 0
    /\ \E j \in 1..Len(prev.ops), k \in 1..Len(ops) :
          /\ prev.ops[j].op = "write"
          /\ ops[k].op = "write"
          /\ prev.ops[j].path = ops[k].path
          /\ prev.ops[j].text # ops[k].text
          /\ prev.fs[ops[k].path] = prev.ops[j].text
          /\ fs[ops[k].path] = ops[k].text

-----------------------------------------------------------------------------
(* C9: -v changes no control flow: two runs on the same command line but    *)
(* for -v, the same files and the same outcome of each file-system call     *)
(* make the same file-system calls in the same order, leave the same files  *)
(* and end with the same exit status.                                       *)
C9_VerboseOnlyPrints ==
    (pc = "exit" /\ prev.mode = "replay") =>
        /\ argv.verbose # prev.argv.verbose
        /\ ops = prev.ops
        /\ phases = prev.phases
        /\ fs = prev.fs
        /\ status = prev.status

\* both runs wrote two files, and only the first printed the progress messages
C9_Witness ==
    /\ pc = "exit"
    /\ prev.mode = "replay"
    /\ prev.argv.verbose
    /\ status = 0
    /\ Len(ops) = 5
    /\ Len(prev.stdout) > Len(stdout)

====
